---------------------------- MODULE Spec2Model ----------------------------
(***************************************************************************)
(* The ordered batch processors of resolve-kwai-cdn-url/scripts:           *)
(*   kwai_csv_to_jsonl.py   ("kwai")    CSV -> JSONL, reorder buffer,      *)
(*                                      KeyboardInterrupt -> os._exit(130) *)
(*   ks_csv_to_jsonl.py     ("ks")      the same loop without interrupt    *)
(*                                      handling and without normalising   *)
(*   resolve_kuaishou_cdn.py ("resolve") batches, SIGINT handler + flag    *)
(*                                                                         *)
(* One behaviour is one run of one program.  The main thread is cut into   *)
(* steps at the points where a worker thread or a signal can interleave.   *)
(* Rows are numbered 1..Len(rows) (the source counts from 0).              *)
(*                                                                         *)
(* The output file is modelled with Python's write buffer: a write() call  *)
(* appends one unit to buf; the io layer moves the buffer to disk when it  *)
(* is full (any write call may be that one), on close() and at interpreter *)
(* finalisation; os._exit() drops it.  kwai and ks write a record with two *)
(* write() calls (the JSON text, then the newline), resolve with one.      *)
(*                                                                         *)
(* Fixed configuration: the error column is enabled (--error-col           *)
(* error_msg), --sleep 0, output to a file; --progress-every 0 in Spec.    *)
(*                                                                         *)
(* Specifications:                                                         *)
(*   Spec        one run without --resume (rows is the list to process),   *)
(*               with worker threads and interrupts                        *)
(*   SpecProgress the same runs with --progress-every and, in kwai, rows   *)
(*               skipped by the resume filter                              *)
(*   SpecCancel  resolve alone, the handler noting which calls had ended   *)
(*               when it set the flag                                      *)
(*   SpecRecord  the (result, error) fields written for one transform      *)
(*               result or exception                                       *)
(*   SpecClean   kwai_common.py: clean_output_jsonl step by step, with     *)
(*               crashes, and load_resume_success_urls, on any file        *)
(*   SpecResume  repeated runs of kwai and ks with --resume on one input   *)
(*               and one output path                                       *)
(*   SpecSetup   one or two runs of kwai on any arguments and any file at  *)
(*               the output path                                           *)
(***************************************************************************)
EXTENDS Integers, Sequences, FiniteSets, TLC

VARIABLES
    prog,           \* which script runs: "kwai" | "ks" | "resolve"
    workers,        \* args.workers
    batch_size,     \* resolve: max(1, args.batch_size); 0 for kwai and ks
    rows,           \* the input rows to process: the URL field of each
    pc,             \* position of the main thread
    fut,            \* per row: the state of its transform call / Future
    collected,      \* rows whose Future as_completed() has yielded
    results,        \* the results list of the pool loop / of process_batch
    ready,          \* kwai, ks: the reorder buffer (dict idx -> result)
    next_idx,       \* kwai, ks: next row to write; sequential loops: current row
    buf,            \* units written to the file object, not yet on disk
    disk,           \* units of the output file on disk
    outq,           \* resolve: output_rows handed to write_jsonl, not yet written
    start,          \* resolve: first row of the current batch
    first_write,    \* resolve: main's first_write
    sigint,         \* disposition of SIGINT: "default" | "handler" | "ignore"
    interrupted,    \* resolve: _INTERRUPTED; kwai: a KeyboardInterrupt was raised
    observed,       \* the run has seen the interrupt (flag read as true / exception caught)
    completed,      \* main's completed counter
    processed,      \* kwai: processed
    success_total,  \* kwai: success_total
    failure_total,  \* kwai: failure_total
    exit_status,    \* -1 while running, then the process's exit status
    progress_every, \* args.progress_every
    skipped,        \* kwai: skipped, the rows the resume filter dropped
    stderr,         \* the progress lines written to sys.stderr: the count each reports
    failure_buckets,\* kwai: failure_buckets
    at_sigint,      \* resolve: the rows whose call had ended when _INTERRUPTED was set
                    \* (noted in SpecCancel only)

    \* clean_output_jsonl and load_resume_success_urls (kwai_common.py)
    out_file,       \* the file at the output path: whether it exists, its lines
    handle,         \* clean_output_jsonl: the lines of the file it opened to read
    c_pos,          \* clean_output_jsonl: lines read so far
    tmp_buf,        \* the temporary file: lines written, not yet flushed
    tmp_disk,       \* the temporary file in the output directory
    kept,           \* clean_output_jsonl: kept
    removed,        \* clean_output_jsonl: removed
    c_pc,           \* position inside clean_output_jsonl / load_resume_success_urls
    c_ret,          \* what clean_output_jsonl returned
    resume_urls,    \* what load_resume_success_urls returned

    \* runs with --resume (kwai_csv_to_jsonl.py, ks_csv_to_jsonl.py)
    csv_rows,       \* the URL column of the input CSV
    transform,      \* the outcome of the transform for each URL (deterministic)
    prior,          \* the output file as the current run found it
    resume_offset,  \* ks: resume_offset
    r_rows,         \* rows after the resume filter
    r_idx,          \* next row of r_rows to process
    r_pc,           \* position of the run
    ends,           \* how the earlier runs ended, oldest first
    args,           \* args.resume, args.output ("-" or a file path)
    fieldnames,     \* reader.fieldnames: the columns of the input CSV
    calls,          \* calls of extract_cdn_url_detail in the current run
    r_status,       \* -1 while the run goes on, then its exit status
    r_stderr,       \* what the current run wrote to sys.stderr
    r_stdout,       \* the records written to sys.stdout (output "-")

    \* the record written for one transform result
    t_out,          \* what the transform call did: a returned pair or an exception
    t_rec           \* the (result, error) written for it

\* The state of the cleaning of a resume file, of the runs with --resume and
\* of the recording of one result: untouched by the actions of a plain run.
clean_vars == <<out_file, handle, c_pos, tmp_buf, tmp_disk, kept, removed, c_pc,
                c_ret, resume_urls>>
resume_vars == <<csv_rows, transform, prior, resume_offset, r_rows, r_idx, r_pc, ends,
                 args, fieldnames, calls, r_status, r_stderr, r_stdout>>
record_vars == <<t_out, t_rec>>
opt_vars == <<progress_every, skipped>>
other_vars == <<opt_vars, clean_vars, resume_vars, record_vars>>

\* The state of a plain run.
run_vars == <<pc, fut, collected, results, ready, next_idx, buf, disk, outq,
              start, first_write, sigint, interrupted, observed, completed,
              processed, success_total, failure_total, exit_status,
              batch_size, rows, opt_vars, stderr, failure_buckets, at_sigint>>

vars == <<prog, workers, batch_size, rows, pc, fut, collected, results, ready,
          next_idx, buf, disk, outq, start, first_write, sigint, interrupted,
          observed, completed, processed, success_total, failure_total,
          exit_status, stderr, failure_buckets, at_sigint, other_vars>>

-----------------------------------------------------------------------------
(* Bounds of the model *)

MaxRows == 3

(* Values *)

Urls == {"a", ""}
WorkerCounts == {1, 2, 8}
NoneVal == <<>>
InterruptedMsg == "interrupted"
ExcMsg == "boom"
LiveUrl == "https://live.kuaishou.com/x"
CaptchaUrl == "https://captcha.zt.kuaishou.com/x"

N == Len(rows)
Idx == 1..N

Terminal == {"exited", "crashed", "uncaught"}

(* Files: whether the path exists, and its lines *)

File(lines) == [exists |-> TRUE, lines |-> lines]
Absent == [exists |-> FALSE, lines |-> <<>>]

(* The parts of the state a specification does not use stay at these values *)

CleanIdle ==
    /\ out_file = Absent /\ handle = <<>> /\ c_pos = 0
    /\ tmp_buf = <<>> /\ tmp_disk = Absent
    /\ kept = 0 /\ removed = 0
    /\ c_pc = "idle" /\ c_ret = NoneVal /\ resume_urls = {}

ResumeIdle ==
    /\ csv_rows = <<>> /\ transform = <<>> /\ prior = Absent
    /\ resume_offset = 0 /\ r_rows = <<>> /\ r_idx = 1
    /\ r_pc = "idle" /\ ends = <<>>
    /\ args = NoneVal /\ fieldnames = {} /\ calls = 0
    /\ r_status = -1 /\ r_stderr = <<>> /\ r_stdout = <<>>

RecordIdle == t_out = NoneVal /\ t_rec = NoneVal

RunIdle ==
    /\ batch_size = 0 /\ rows = <<>> /\ pc = "idle"
    /\ fut = <<>> /\ collected = {} /\ results = <<>> /\ ready = <<>>
    /\ next_idx = 1 /\ buf = <<>> /\ disk = <<>> /\ outq = <<>>
    /\ start = 1 /\ first_write = TRUE /\ sigint = "default"
    /\ interrupted = FALSE /\ observed = FALSE
    /\ completed = 0 /\ processed = 0 /\ success_total = 0
    /\ failure_total = 0 /\ exit_status = -1
    /\ progress_every = 0 /\ skipped = 0
    /\ stderr = <<>> /\ failure_buckets = <<>> /\ at_sigint = {}

-----------------------------------------------------------------------------
(* The per-item transform *)

\* What one call of the transform can do for a URL: the kinds of outcome.
\* An empty URL never reaches the external extractor.
Outcomes(p, url) ==
    IF url = "" THEN {"empty"}
    ELSE IF p = "resolve" THEN {"ok", "fail", "raise"}
    ELSE {"ok", "fail", "live", "raise"}

Returned == {"ok", "fail", "live", "empty"}
Settled == Returned \cup {"raise"}

\* kwai/ks _process_one: the (cdn_url, err) pair a call of kind k returns.
\* extract_cdn_url_detail returns None for a missing URL.
_process_one(k) ==
    CASE k = "empty" -> <<"", "empty url">>
      [] k = "ok"    -> <<"cdn", "">>
      [] k = "live"  -> <<LiveUrl, "">>
      [] OTHER       -> <<"None", "cdn url not found">>

\* resolve process_one: the (cdn_url, error_msg) of the dict it returns.
process_one(k) ==
    CASE k = "empty" -> <<"", "empty input">>
      [] k = "ok"    -> <<"cdn", "">>
      [] OTHER       -> <<"", "cdn url not found in videodl response">>

\* A normalisation that sets the error of a live page but leaves its URL in
\* the result.
NormalizeKeepsUrl(cdn_url, err) ==
    IF cdn_url \in {"", "None"} THEN <<"", err>>
    ELSE IF cdn_url = LiveUrl
         THEN <<cdn_url, IF err # "" THEN err ELSE "live.kuaishou.com is not a CDN url">>
    ELSE <<cdn_url, err>>

\* kwai _normalize_cdn_url
_normalize_cdn_url(cdn_url, err) ==
    IF cdn_url \in {"", "None"} THEN <<"", err>>
    ELSE IF cdn_url = LiveUrl
         THEN <<"", IF err # "" THEN err ELSE "live.kuaishou.com is not a CDN url">>
    ELSE IF cdn_url = CaptchaUrl
         THEN <<"", IF err # "" THEN "err; captcha" ELSE "captcha url is not a CDN url">>
    ELSE <<cdn_url, err>>

\* `cdn_url or ""`
OrEmpty(s) == IF s = "None" THEN "" ELSE s

\* The pair the sequential loop works with after a call of kind k returned.
SeqResult(p, k) ==
    IF p = "kwai" THEN _normalize_cdn_url(_process_one(k)[1], _process_one(k)[2])
    ELSE _process_one(k)

\* An except clause that drops the exception's message.
FutureResultNoMsg(p, k) ==
    IF k = "raise" THEN <<"", "">>
    ELSE IF p = "resolve" THEN process_one(k)
    ELSE SeqResult(p, k)

\* The pool loops: what is stored in results[idx] for a finished future of
\* kind k: future.result() (normalised in kwai), or ("", str(exc)).
FutureResult(p, k) ==
    IF k = "raise" THEN <<"", ExcMsg>>
    ELSE IF p = "resolve" THEN process_one(k)
    ELSE SeqResult(p, k)

-----------------------------------------------------------------------------
(* The output file *)

JsonUnit(i, pair) ==
    [k |-> "json", row |-> i, url |-> rows[i], cdn |-> OrEmpty(pair[1]), err |-> pair[2]]
NlUnit == [k |-> "nl", row |-> 0, url |-> "", cdn |-> "", err |-> ""]
LineUnit(i, pair) ==
    [k |-> "line", row |-> i, url |-> rows[i], cdn |-> pair[1], err |-> pair[2]]

\* file.write(u): the unit goes to the buffer; the buffer may be flushed.
Write(u) ==
    \E full \in BOOLEAN :
        IF full THEN /\ disk' = disk \o buf \o <<u>>
                     /\ buf' = <<>>
        ELSE /\ buf' = Append(buf, u)
             /\ disk' = disk

\* file.close(), and the flush of open files when the interpreter finalises.
Close ==
    /\ disk' = disk \o buf
    /\ buf' = <<>>

\* os._exit(): the process ends at once, the buffer is dropped.
DropBuffer ==
    /\ buf' = <<>>
    /\ disk' = disk


-----------------------------------------------------------------------------
(* The thread pool (concurrent.futures.ThreadPoolExecutor) *)

Running == {i \in Idx : fut[i] = "running"}

\* A batch that takes every row from s on.
BatchRest(s) == {i \in Idx : s <= i}

\* resolve: the rows of the batch that starts at s.
Batch(s) == {i \in Idx : s <= i /\ i < s + batch_size}

\* Whether the tasks run on the pool: workers > 1, and in resolve
\* process_batch also needs a batch of more than one item.
UsesPool ==
    IF prog = "resolve" THEN workers > 1 /\ Cardinality(Batch(start)) # 1
    ELSE workers > 1

\* A pool that starts a thread for every submitted task.
WorkerStartUnbounded(i) ==
    /\ pc \notin Terminal
    /\ fut[i] = "queued"
    /\ fut' = [fut EXCEPT ![i] = "running"]
    /\ UNCHANGED <<other_vars, at_sigint, stderr, failure_buckets, prog, workers, batch_size, rows, pc, collected, results, ready,
                   next_idx, buf, disk, outq, start, first_write, sigint,
                   interrupted, observed, completed, processed, success_total,
                   failure_total, exit_status>>

\* A worker thread takes the oldest queued work item and calls the transform.
WorkerStart(i) ==
    /\ pc \notin Terminal
    /\ fut[i] = "queued"
    /\ \A j \in Idx : j < i => fut[j] # "queued"
    /\ Cardinality(Running) < workers
    /\ fut' = [fut EXCEPT ![i] = "running"]
    /\ UNCHANGED <<other_vars, at_sigint, stderr, failure_buckets, prog, workers, batch_size, rows, pc, collected, results, ready,
                   next_idx, buf, disk, outq, start, first_write, sigint,
                   interrupted, observed, completed, processed, success_total,
                   failure_total, exit_status>>

\* A task that writes its own row to the output when its call has returned.
WorkerFinishWrites(i) ==
    /\ pc \notin Terminal
    /\ fut[i] = "running"
    /\ \E k \in Outcomes(prog, rows[i]) :
        /\ fut' = [fut EXCEPT ![i] = k]
        /\ buf' = Append(buf, [k |-> "json", row |-> i, url |-> rows[i],
                               cdn |-> "", err |-> ""])
    /\ UNCHANGED <<other_vars, at_sigint, stderr, failure_buckets, prog, workers, batch_size, rows, pc, collected, results, ready,
                   next_idx, disk, outq, start, first_write, sigint,
                   interrupted, observed, completed, processed, success_total,
                   failure_total, exit_status>>

\* The transform call of a worker returns or raises: the future is done.
WorkerFinish(i) ==
    /\ pc \notin Terminal
    /\ \/ prog # "resolve" /\ workers > 1
       \/ prog = "resolve" /\ pc # "r_call"
    /\ fut[i] = "running"
    /\ \E k \in Outcomes(prog, rows[i]) : fut' = [fut EXCEPT ![i] = k]
    /\ UNCHANGED <<other_vars, at_sigint, stderr, failure_buckets, prog, workers, batch_size, rows, pc, collected, results, ready,
                   next_idx, buf, disk, outq, start, first_write, sigint,
                   interrupted, observed, completed, processed, success_total,
                   failure_total, exit_status>>

\* executor.shutdown(wait=False, cancel_futures=True): the queued futures are
\* cancelled, the running calls go on.
Shutdown(f) == [i \in DOMAIN f |-> IF f[i] = "queued" THEN "cancelled" ELSE f[i]]

-----------------------------------------------------------------------------
(* kwai_csv_to_jsonl.py and ks_csv_to_jsonl.py: main *)

Csv == prog \in {"kwai", "ks"}

\* Writing whatever is ready, in completion order.
PendingWriteAny(r, n) == DOMAIN r

\* `while next_idx in ready`: the index the loop pops and writes next, if any.
PendingWrite(r, n) == IF n \in DOMAIN r THEN {n} ELSE {}

\* A pool loop that leaves the flush loop for as_completed while the next
\* index is still in the buffer, and writes once every future has been yielded.
AfterFlushLate(r, n, coll) ==
    IF coll # Idx THEN "wait"
    ELSE IF PendingWrite(r, n) # {} THEN "w_json"
    ELSE "finish"

\* Where the pool loop goes after a step: on with the flush loop, back into
\* as_completed, or out of the loop when every future has been yielded.
AfterFlush(r, n, coll) ==
    IF PendingWrite(r, n) # {} THEN "w_json"
    ELSE IF coll = Idx THEN "finish"
    ELSE "wait"

\* kwai _bucket_failure
Buckets == {"unknown", "captcha_url", "live_url", "photo_id_missing",
            "cdn_not_found", "empty_url", "other"}
_bucket_failure(err) ==
    CASE err = "" -> "unknown"
      [] err \in {"captcha url is not a CDN url", "err; captcha"} -> "captcha_url"
      [] err = "live.kuaishou.com is not a CDN url" -> "live_url"
      [] err = "photoId not found" -> "photo_id_missing"
      [] err = "cdn url not found" -> "cdn_not_found"
      [] err = "empty url" -> "empty_url"
      [] OTHER -> "other"

\* Counter(): every bucket counts 0.
NoFailures == [b \in Buckets |-> 0]

\* The counters of kwai after a row with result pair was written.
Count(pair) ==
    IF prog = "kwai"
    THEN /\ processed' = processed + 1
         /\ success_total' = success_total + (IF pair[1] # "" THEN 1 ELSE 0)
         /\ failure_total' = failure_total + (IF pair[1] # "" THEN 0 ELSE 1)
         /\ failure_buckets' =
               IF pair[1] # "" THEN failure_buckets
               ELSE [failure_buckets EXCEPT ![_bucket_failure(pair[2])] = @ + 1]
    ELSE UNCHANGED <<processed, success_total, failure_total, failure_buckets>>

\* `if progress_every and count % progress_every == 0:` the progress line
\* that reports `printed` goes to sys.stderr.
Progress(count, printed) ==
    stderr' = IF progress_every > 0 /\ count % progress_every = 0
              THEN Append(stderr, printed) ELSE stderr

\* Entering the work: the sequential loop, or the submission of every row.
CsvStart ==
    /\ Csv /\ pc = "start"
    /\ IF workers <= 1
       THEN /\ pc' = "seq_next"
            /\ UNCHANGED <<fut, results>>
       ELSE /\ fut' = [i \in Idx |-> "queued"]
            /\ results' = [i \in Idx |-> <<"", "">>]
            /\ pc' = "wait"
    /\ UNCHANGED <<other_vars, at_sigint, stderr, failure_buckets, prog, workers, batch_size, rows, collected, ready, next_idx,
                   buf, disk, outq, start, first_write, sigint, interrupted,
                   observed, completed, processed, success_total, failure_total,
                   exit_status>>

\* Sequential loop: the call of _process_one for the next row begins.
CsvSeqCall ==
    /\ Csv /\ pc = "seq_next"
    /\ fut' = [fut EXCEPT ![next_idx] = "running"]
    /\ pc' = "seq_call"
    /\ UNCHANGED <<other_vars, at_sigint, stderr, failure_buckets, prog, workers, batch_size, rows, collected, results, ready,
                   next_idx, buf, disk, outq, start, first_write, sigint,
                   interrupted, observed, completed, processed, success_total,
                   failure_total, exit_status>>

\* Sequential loop: the call returns (and is normalised in kwai), or raises.
\* Nothing catches an exception here: it leaves main, the interpreter
\* finalises (open files are flushed) and exits with status 1.
CsvSeqReturn ==
    /\ Csv /\ pc = "seq_call"
    /\ \E k \in Outcomes(prog, rows[next_idx]) :
        /\ fut' = [fut EXCEPT ![next_idx] = k]
        /\ IF k = "raise"
           THEN /\ Close
                /\ pc' = "crashed"
                /\ exit_status' = 1
                /\ UNCHANGED results
           ELSE /\ results' = [results EXCEPT ![next_idx] = SeqResult(prog, k)]
                /\ pc' = "w_json"
                /\ UNCHANGED <<buf, disk, exit_status>>
    /\ UNCHANGED <<other_vars, at_sigint, stderr, failure_buckets, prog, workers, batch_size, rows, collected, ready, next_idx,
                   outq, start, first_write, sigint, interrupted, observed,
                   completed, processed, success_total, failure_total>>

\* Pool loop: as_completed yields a finished future; its result, or the
\* message of its exception, goes to results[idx] and ready[idx].
CsvCollect(i) ==
    /\ Csv /\ pc = "wait"
    /\ i \in Idx \ collected
    /\ fut[i] \in Settled
    /\ results' = [results EXCEPT ![i] = FutureResult(prog, fut[i])]
    /\ ready' = [j \in DOMAIN ready \cup {i} |-> results'[j]]
    /\ collected' = collected \cup {i}
    /\ completed' = completed + 1
    /\ Progress(completed', completed')
    /\ pc' = AfterFlush(ready', next_idx, collected')
    /\ UNCHANGED <<other_vars, at_sigint, failure_buckets, prog, workers, batch_size, rows, fut, next_idx, buf, disk,
                   outq, start, first_write, sigint, interrupted, observed,
                   processed, success_total, failure_total, exit_status>>

\* _write_jsonl_row, first call: output.write(json.dumps(row)).  In the pool
\* loop the row is the one popped from ready.
CsvWriteJson ==
    /\ Csv /\ pc = "w_json"
    /\ IF workers <= 1
       THEN /\ Write(JsonUnit(next_idx, results[next_idx]))
            /\ UNCHANGED ready
       ELSE \E i \in PendingWrite(ready, next_idx) :
            /\ Write(JsonUnit(i, ready[i]))
            /\ ready' = [j \in DOMAIN ready \ {i} |-> ready[j]]
    /\ pc' = "w_nl"
    /\ UNCHANGED <<other_vars, at_sigint, stderr, failure_buckets, prog, workers, batch_size, rows, fut, collected, results,
                   next_idx, outq, start, first_write, sigint, interrupted,
                   observed, completed, processed, success_total, failure_total,
                   exit_status>>

\* _write_jsonl_row, second call: output.write("\n"); then the counters and
\* the step to the next row.
CsvWriteNl ==
    /\ Csv /\ pc = "w_nl"
    /\ Write(NlUnit)
    /\ Count(results[next_idx])
    /\ next_idx' = next_idx + 1
    /\ IF workers <= 1
       THEN /\ completed' = completed + 1
            /\ Progress(completed', completed')
            /\ pc' = IF next_idx + 1 > N THEN "finish" ELSE "seq_next"
       ELSE /\ pc' = AfterFlush(ready, next_idx + 1, collected)
            /\ UNCHANGED <<completed, stderr>>
    /\ UNCHANGED <<other_vars, at_sigint, prog, workers, batch_size, rows, fut, collected, results,
                   ready, outq, start, first_write, sigint, interrupted,
                   observed, exit_status>>

\* The normal end of main: the executor is shut down, the output is closed,
\* main returns 0.
CsvFinish ==
    /\ Csv /\ pc = "finish"
    /\ fut' = Shutdown(fut)
    /\ Close
    /\ exit_status' = 0
    /\ pc' = "exited"
    /\ UNCHANGED <<other_vars, at_sigint, stderr, failure_buckets, prog, workers, batch_size, rows, collected, results, ready,
                   next_idx, outq, start, first_write, sigint, interrupted,
                   observed, completed, processed, success_total, failure_total>>

-----------------------------------------------------------------------------
(* kwai_csv_to_jsonl.py: KeyboardInterrupt *)

KwaiInTry == {"start", "seq_next", "seq_call", "w_json", "w_nl", "wait", "finish"}

\* SIGINT while main is inside the try block: KeyboardInterrupt is raised in
\* the main thread.  The inner finally shuts the executor down, the except
\* clause is entered.  A sequential transform call in progress is abandoned.
KwaiInterrupt ==
    /\ prog = "kwai" /\ sigint = "default"
    /\ pc \in KwaiInTry
    /\ interrupted' = TRUE
    /\ observed' = TRUE
    /\ fut' = [i \in Idx |->
                 IF workers <= 1 /\ fut[i] = "running" THEN "aborted"
                 ELSE Shutdown(fut)[i]]
    /\ pc' = "handler"
    /\ UNCHANGED <<other_vars, at_sigint, stderr, failure_buckets, prog, workers, batch_size, rows, collected, results, ready,
                   next_idx, buf, disk, outq, start, first_write, sigint,
                   completed, processed, success_total, failure_total,
                   exit_status>>

\* The disposition of SIGINT once the except clause has passed its
\* `if args.workers > 1: signal.signal(SIGINT, SIG_IGN)`.
HandlerDisposition(w, d) == IF w > 1 THEN "ignore" ELSE d

\* except KeyboardInterrupt: the message, SIGINT is ignored in pool mode,
\* _emit_stats, sys.stderr.flush(), os._exit(130).
KwaiHandler ==
    /\ prog = "kwai" /\ pc = "handler"
    /\ sigint' = HandlerDisposition(workers, sigint)
    /\ DropBuffer
    /\ exit_status' = 130
    /\ pc' = "exited"
    /\ UNCHANGED <<other_vars, at_sigint, stderr, failure_buckets, prog, workers, batch_size, rows, fut, collected, results,
                   ready, next_idx, outq, start, first_write, interrupted,
                   observed, completed, processed, success_total, failure_total>>

\* A second SIGINT while the except clause runs and SIGINT is not yet ignored:
\* KeyboardInterrupt is raised inside the handler and leaves main.  The
\* interpreter finalises (open files are flushed) and ends by SIGINT, which
\* the shell reports as 130.
KwaiSecondInterrupt ==
    /\ prog = "kwai" /\ sigint = "default"
    /\ pc = "handler"
    /\ Close
    /\ exit_status' = 130
    /\ pc' = "uncaught"
    /\ UNCHANGED <<other_vars, at_sigint, stderr, failure_buckets, prog, workers, batch_size, rows, fut, collected, results,
                   ready, next_idx, outq, start, first_write, sigint,
                   interrupted, observed, completed, processed, success_total,
                   failure_total>>

-----------------------------------------------------------------------------
(* resolve_kuaishou_cdn.py: _handle_sigint, process_batch, main (CSV mode) *)

Resolve == prog = "resolve"


\* _handle_sigint: the value it gives the flag _INTERRUPTED.
HandleSigint(f) == TRUE

\* SIGINT with the handler installed: the flag is set, SIGINT is ignored from
\* now on.  The handler runs in the main thread between two of its steps.
_handle_sigint ==
    /\ Resolve /\ sigint = "handler"
    /\ pc \notin Terminal
    /\ interrupted' = HandleSigint(interrupted)
    /\ sigint' = "ignore"
    /\ UNCHANGED <<other_vars, at_sigint, stderr, failure_buckets, prog, workers, batch_size, rows, pc, fut, collected, results,
                   ready, next_idx, buf, disk, outq, start, first_write,
                   observed, completed, processed, success_total, failure_total,
                   exit_status>>

\* main takes the next batch and calls process_batch: the sequential loop
\* when workers <= 1 or the batch has one item, else every item is submitted.
RBatchBegin ==
    /\ Resolve /\ pc = "r_batch"
    /\ IF UsesPool
       THEN /\ fut' = [i \in Idx |-> IF i \in Batch(start) THEN "queued" ELSE fut[i]]
            /\ pc' = "r_wait"
            /\ UNCHANGED next_idx
       ELSE /\ next_idx' = start
            /\ pc' = "r_seq"
            /\ UNCHANGED fut
    /\ UNCHANGED <<other_vars, at_sigint, stderr, failure_buckets, prog, workers, batch_size, rows, collected, results, ready,
                   buf, disk, outq, start, first_write, sigint, interrupted,
                   observed, completed, processed, success_total, failure_total,
                   exit_status>>

\* Sequential loop of process_batch: `if _INTERRUPTED: break`, else the call
\* of process_one for the next item begins; the loop ends after the last item.
RSeqNext ==
    /\ Resolve /\ pc = "r_seq"
    /\ IF next_idx \notin Batch(start)
       THEN /\ pc' = "r_fill"
            /\ UNCHANGED <<fut, observed>>
       ELSE IF interrupted
       THEN /\ observed' = TRUE
            /\ pc' = "r_fill"
            /\ UNCHANGED fut
       ELSE /\ fut' = [fut EXCEPT ![next_idx] = "running"]
            /\ pc' = "r_call"
            /\ UNCHANGED observed
    /\ UNCHANGED <<other_vars, at_sigint, stderr, failure_buckets, prog, workers, batch_size, rows, collected, results, ready,
                   next_idx, buf, disk, outq, start, first_write, sigint,
                   interrupted, completed, processed, success_total,
                   failure_total, exit_status>>

\* Sequential loop: process_one returns and its result is appended, or it
\* raises: nothing catches the exception, main ends with status 1.
RSeqReturn ==
    /\ Resolve /\ pc = "r_call"
    /\ \E k \in Outcomes(prog, rows[next_idx]) :
        /\ fut' = [fut EXCEPT ![next_idx] = k]
        /\ IF k = "raise"
           THEN /\ pc' = "crashed"
                /\ exit_status' = 1
                /\ UNCHANGED <<results, next_idx, stderr>>
           ELSE /\ results' = [results EXCEPT ![next_idx] = process_one(k)]
                /\ Progress(next_idx - start + 1, completed + next_idx - start + 1)
                /\ next_idx' = next_idx + 1
                /\ pc' = "r_seq"
                /\ UNCHANGED exit_status
    /\ UNCHANGED <<other_vars, at_sigint, failure_buckets, prog, workers, batch_size, rows, collected, ready, buf, disk,
                   outq, start, first_write, sigint, interrupted, observed,
                   completed, processed, success_total, failure_total>>

\* Pool loop of process_batch: as_completed yields a finished future;
\* `if _INTERRUPTED: break`, else its result or its exception is stored.
RCollect(i) ==
    /\ Resolve /\ pc = "r_wait"
    /\ i \in Batch(start) \ collected
    /\ fut[i] \in Settled
    /\ collected' = collected \cup {i}
    /\ IF interrupted
       THEN /\ observed' = TRUE
            /\ pc' = "r_shutdown"
            /\ UNCHANGED <<results, stderr>>
       ELSE /\ results' = [results EXCEPT ![i] = FutureResult(prog, fut[i])]
            /\ Progress(Cardinality(collected' \cap Batch(start)),
                        completed + Cardinality(collected' \cap Batch(start)))
            /\ pc' = IF Batch(start) \subseteq collected' THEN "r_shutdown" ELSE "r_wait"
            /\ UNCHANGED observed
    /\ UNCHANGED <<other_vars, at_sigint, failure_buckets, prog, workers, batch_size, rows, fut, ready, next_idx, buf,
                   disk, outq, start, first_write, sigint, interrupted,
                   completed, processed, success_total, failure_total,
                   exit_status>>

\* finally: executor.shutdown(wait=False, cancel_futures=True)
RShutdown ==
    /\ Resolve /\ pc = "r_shutdown"
    /\ fut' = Shutdown(fut)
    /\ pc' = "r_fill"
    /\ UNCHANGED <<other_vars, at_sigint, stderr, failure_buckets, prog, workers, batch_size, rows, collected, results, ready,
                   next_idx, buf, disk, outq, start, first_write, sigint,
                   interrupted, observed, completed, processed, success_total,
                   failure_total, exit_status>>

\* An end of process_batch that fills nothing in.
FillNothing(res, flag) == res

\* The end of process_batch: with the flag set, every item without a result
\* gets the 'interrupted' record.
Fill(res, flag) ==
    [i \in DOMAIN res |->
        IF i \in Batch(start) /\ res[i] = NoneVal /\ flag
        THEN <<"", InterruptedMsg>>
        ELSE res[i]]

\* The list process_batch returns: the results of the batch that are not None.
RECURSIVE Returned_(_, _)
Returned_(res, i) ==
    IF i \notin Batch(start) THEN <<>>
    ELSE IF res[i] = NoneVal THEN Returned_(res, i + 1)
    ELSE <<res[i]>> \o Returned_(res, i + 1)

Min(a, b) == IF a < b THEN a ELSE b

\* zip(rows, results) over the rows of the whole job instead of the batch.
ZipWithAllRows(ret) ==
    [j \in 1..Min(N, Len(ret)) |-> LineUnit(j, ret[j])]

\* build_csv_output_rows: zip(batch_rows, results).
build_csv_output_rows(ret) ==
    [j \in 1..Min(Cardinality(Batch(start)), Len(ret)) |-> LineUnit(start + j - 1, ret[j])]

\* process_batch returns, main builds the output rows of the batch.
RFill ==
    /\ Resolve /\ pc = "r_fill"
    /\ results' = Fill(results, interrupted)
    /\ observed' = (observed \/ interrupted)
    /\ outq' = build_csv_output_rows(Returned_(results', start))
    /\ pc' = "r_open"
    /\ UNCHANGED <<other_vars, at_sigint, stderr, failure_buckets, prog, workers, batch_size, rows, fut, collected, ready,
                   next_idx, buf, disk, start, first_write, sigint, interrupted,
                   completed, processed, success_total, failure_total,
                   exit_status>>

\* write_jsonl: open(output_path, "w" for the first batch, else "a").
ROpen ==
    /\ Resolve /\ pc = "r_open"
    /\ disk' = IF first_write THEN <<>> ELSE disk
    /\ pc' = "r_write"
    /\ UNCHANGED <<other_vars, at_sigint, stderr, failure_buckets, prog, workers, batch_size, rows, fut, collected, results,
                   ready, next_idx, buf, outq, start, first_write, sigint,
                   interrupted, observed, completed, processed, success_total,
                   failure_total, exit_status>>

\* write_jsonl: out.write(json.dumps(item) + "\n") for the next item.
RWriteLine ==
    /\ Resolve /\ pc = "r_write"
    /\ outq # <<>>
    /\ Write(Head(outq))
    /\ outq' = Tail(outq)
    /\ UNCHANGED <<other_vars, at_sigint, stderr, failure_buckets, prog, workers, batch_size, rows, pc, fut, collected, results,
                   ready, next_idx, start, first_write, sigint, interrupted,
                   observed, completed, processed, success_total, failure_total,
                   exit_status>>

\* write_jsonl: out.close(); back in main: first_write = False, completed,
\* and the progress line of the batch `if args.progress_every > 0`.
RClose ==
    /\ Resolve /\ pc = "r_write"
    /\ outq = <<>>
    /\ Close
    /\ first_write' = FALSE
    /\ completed' = completed + Cardinality(Batch(start))
    /\ stderr' = IF progress_every > 0 THEN Append(stderr, completed') ELSE stderr
    /\ pc' = "r_check"
    /\ UNCHANGED <<other_vars, at_sigint, failure_buckets, prog, workers, batch_size, rows, fut, collected, results,
                   ready, next_idx, outq, start, sigint, interrupted, observed,
                   processed, success_total, failure_total, exit_status>>

\* A return code that reports failed records.
ReturnCodeFailures(flag, res) ==
    IF flag THEN 130
    ELSE IF \E i \in DOMAIN res : res[i] # NoneVal /\ res[i][1] = "" THEN 1
    ELSE 0

\* What main returns after a batch when it leaves the loop.
ReturnCode(flag, res) == IF flag THEN 130 ELSE 0

\* main after a batch: `if _INTERRUPTED: return 130`, else the next batch, or
\* `return 0` after the last one.
RCheck ==
    /\ Resolve /\ pc = "r_check"
    /\ IF interrupted \/ start + batch_size > N
       THEN /\ exit_status' = ReturnCode(interrupted, results)
            /\ observed' = (observed \/ interrupted)
            /\ pc' = "exited"
            /\ UNCHANGED start
       ELSE /\ start' = start + batch_size
            /\ pc' = "r_batch"
            /\ UNCHANGED <<exit_status, observed>>
    /\ UNCHANGED <<other_vars, at_sigint, stderr, failure_buckets, prog, workers, batch_size, rows, fut, collected, results,
                   ready, next_idx, buf, disk, outq, first_write, sigint,
                   interrupted, completed, processed, success_total,
                   failure_total>>

-----------------------------------------------------------------------------
Progs == {"kwai", "ks", "resolve"}

Init ==
    /\ prog \in Progs
    /\ workers \in WorkerCounts
    /\ batch_size \in (IF prog = "resolve" THEN 1..MaxRows ELSE {0})
    /\ rows \in UNION {[1..n -> Urls] : n \in 1..MaxRows}
    /\ pc = (IF prog = "resolve" THEN "r_batch" ELSE "start")
    /\ fut = [i \in DOMAIN rows |-> "idle"]
    /\ collected = {}
    /\ results = [i \in DOMAIN rows |-> NoneVal]
    /\ ready = <<>>
    /\ next_idx = 1
    /\ buf = <<>>
    /\ disk = <<>>
    /\ outq = <<>>
    /\ start = 1
    /\ first_write = TRUE
    /\ sigint = (IF prog = "resolve" THEN "handler" ELSE "default")
    /\ interrupted = FALSE
    /\ observed = FALSE
    /\ completed = 0
    /\ processed = 0
    /\ success_total = 0
    /\ failure_total = 0
    /\ exit_status = -1
    /\ progress_every = 0
    /\ skipped = 0
    /\ stderr = <<>>
    /\ failure_buckets = NoFailures
    /\ at_sigint = {}
    /\ CleanIdle /\ ResumeIdle /\ RecordIdle

Next ==
    \/ CsvStart
    \/ CsvSeqCall
    \/ CsvSeqReturn
    \/ \E i \in Idx : CsvCollect(i)
    \/ CsvWriteJson
    \/ CsvWriteNl
    \/ CsvFinish
    \/ \E i \in Idx : WorkerStart(i)
    \/ \E i \in Idx : WorkerFinish(i)
    \/ KwaiInterrupt
    \/ KwaiHandler
    \/ KwaiSecondInterrupt
    \/ _handle_sigint
    \/ RBatchBegin
    \/ RSeqNext
    \/ RSeqReturn
    \/ \E i \in Idx : RCollect(i)
    \/ RShutdown
    \/ RFill
    \/ ROpen
    \/ RWriteLine
    \/ RClose
    \/ RCheck

Spec == Init /\ [][Next]_vars

-----------------------------------------------------------------------------
(* The same runs with progress reports: --progress-every P, and in kwai a  *)
(* number of rows the resume filter has skipped (completed starts there).  *)

MaxJob == 2

ProgressIntervals == {0, 1, 2}
Skips(p) == IF p = "kwai" THEN {0, 1} ELSE {0}

ProgressInit ==
    /\ prog \in Progs
    /\ workers \in {1, 2}
    /\ batch_size \in (IF prog = "resolve" THEN 1..MaxJob ELSE {0})
    /\ rows \in UNION {[1..n -> Urls] : n \in 1..MaxJob}
    /\ progress_every \in ProgressIntervals
    /\ skipped \in Skips(prog)
    /\ pc = (IF prog = "resolve" THEN "r_batch" ELSE "start")
    /\ fut = [i \in DOMAIN rows |-> "idle"]
    /\ collected = {}
    /\ results = [i \in DOMAIN rows |-> NoneVal]
    /\ ready = <<>>
    /\ next_idx = 1
    /\ buf = <<>>
    /\ disk = <<>>
    /\ outq = <<>>
    /\ start = 1
    /\ first_write = TRUE
    /\ sigint = (IF prog = "resolve" THEN "handler" ELSE "default")
    /\ interrupted = FALSE
    /\ observed = FALSE
    /\ completed = skipped
    /\ processed = 0
    /\ success_total = 0
    /\ failure_total = 0
    /\ exit_status = -1
    /\ stderr = <<>>
    /\ failure_buckets = NoFailures
    /\ at_sigint = {}
    /\ CleanIdle /\ ResumeIdle /\ RecordIdle

SpecProgress == ProgressInit /\ [][Next]_vars

-----------------------------------------------------------------------------
(* resolve alone, with the moment of the interrupt noted: the handler also *)
(* writes down which calls of process_one had ended when it set the flag.  *)

\* _handle_sigint, noting the rows whose call has ended at that moment.
SigintNoted ==
    /\ Resolve /\ sigint = "handler"
    /\ pc \notin Terminal
    /\ interrupted' = HandleSigint(interrupted)
    /\ sigint' = "ignore"
    /\ at_sigint' = {i \in Idx : fut[i] \in Settled}
    /\ UNCHANGED <<other_vars, stderr, failure_buckets, prog, workers, batch_size, rows, pc, fut, collected, results,
                   ready, next_idx, buf, disk, outq, start, first_write,
                   observed, completed, processed, success_total, failure_total,
                   exit_status>>

CancelInit ==
    /\ prog = "resolve"
    /\ workers \in {1, 2}
    /\ batch_size \in 1..MaxJob
    /\ rows \in UNION {[1..n -> Urls] : n \in 1..MaxJob}
    /\ progress_every = 0
    /\ skipped = 0
    /\ pc = "r_batch"
    /\ fut = [i \in DOMAIN rows |-> "idle"]
    /\ collected = {}
    /\ results = [i \in DOMAIN rows |-> NoneVal]
    /\ ready = <<>>
    /\ next_idx = 1
    /\ buf = <<>>
    /\ disk = <<>>
    /\ outq = <<>>
    /\ start = 1
    /\ first_write = TRUE
    /\ sigint = "handler"
    /\ interrupted = FALSE
    /\ observed = FALSE
    /\ completed = 0
    /\ processed = 0
    /\ success_total = 0
    /\ failure_total = 0
    /\ exit_status = -1
    /\ stderr = <<>>
    /\ failure_buckets = NoFailures
    /\ at_sigint = {}
    /\ CleanIdle /\ ResumeIdle /\ RecordIdle

CancelNext ==
    \/ \E i \in Idx : WorkerStart(i)
    \/ \E i \in Idx : WorkerFinish(i)
    \/ SigintNoted
    \/ RBatchBegin
    \/ RSeqNext
    \/ RSeqReturn
    \/ \E i \in Idx : RCollect(i)
    \/ RShutdown
    \/ RFill
    \/ ROpen
    \/ RWriteLine
    \/ RClose
    \/ RCheck

SpecCancel == CancelInit /\ [][CancelNext]_vars

-----------------------------------------------------------------------------
(* The record written for one transform result.                            *)
(* One call of the transform either returns a pair (cdn_url, err) or       *)
(* raises an exception with a message; the scripts turn it into the        *)
(* (result, error) fields of the row they write.                           *)

Cdns == {"None", "", "cdn", LiveUrl, CaptchaUrl}
Errs == {"", "e"}
ExcMsgs == {"", ExcMsg}

\* What a call can do: <<"return", cdn_url, err>> or <<"raise", str(exc), "">>.
TransformResults ==
    {<<"return", c, e>> : c \in Cdns, e \in Errs}
    \cup {<<"raise", m, "">> : m \in ExcMsgs}

\* The exception left main: nothing is written for the row.
Crashed == <<"crashed">>

\* kwai sequential loop: _normalize_cdn_url, then `cdn_url or ""`.
\* kwai pool loop: the same for a result, ("", str(exc)) for an exception.
KwaiRecorded(w, out) ==
    IF out[1] = "raise"
    THEN IF w <= 1 THEN Crashed ELSE <<"", out[2]>>
    ELSE <<OrEmpty(_normalize_cdn_url(out[2], out[3])[1]),
           _normalize_cdn_url(out[2], out[3])[2]>>

\* ks: the pair as returned, `cdn_url or ""`; ("", str(exc)) in the pool loop.
KsRecorded(w, out) ==
    IF out[1] = "raise"
    THEN IF w <= 1 THEN Crashed ELSE <<"", out[2]>>
    ELSE <<OrEmpty(out[2]), out[3]>>

\* resolve process_one around resolve_cdn_url: an empty result becomes the
\* error "cdn url not found in videodl response" (or the page's reason), an
\* exception becomes error_msg = str(exc).
ResolveRecorded(w, out) ==
    IF out[1] = "raise" THEN <<"", out[2]>>
    ELSE IF out[2] \in {"", "None"}
         THEN <<"", "cdn url not found in videodl response">>
    ELSE <<out[2], "">>

Recorded(p, w, out) ==
    CASE p = "kwai" -> KwaiRecorded(w, out)
      [] p = "ks"   -> KsRecorded(w, out)
      [] OTHER      -> ResolveRecorded(w, out)

RecordInit ==
    /\ prog \in Progs
    /\ workers \in WorkerCounts
    /\ t_out \in TransformResults
    /\ t_rec = NoneVal
    /\ RunIdle /\ CleanIdle /\ ResumeIdle

\* The transform call ends and the script sets the row's fields.
RecordResult ==
    /\ t_rec = NoneVal
    /\ t_rec' = Recorded(prog, workers, t_out)
    /\ UNCHANGED <<prog, workers, t_out, run_vars, clean_vars, resume_vars>>

RecordNext == RecordResult

SpecRecord == RecordInit /\ [][RecordNext]_vars

-----------------------------------------------------------------------------
(* kwai_common.py: is_success_record, extract_url_from_record,             *)
(* load_resume_success_urls, clean_output_jsonl                            *)
(*                                                                         *)
(* A line of an output file is a JSON object with the URL, the result and  *)
(* the error field (the error key may be missing), a JSON value that is no *)
(* object, text that is not JSON, a blank line, or bytes that are not      *)
(* UTF-8 (a record cut inside a multi-byte character).                     *)

MaxLines == 3

Keys == {"a", "b"}
Missing == "<missing>"

Rec(url, cdn, err) == [k |-> "obj", url |-> url, cdn |-> cdn, err |-> err]
Other(kind) == [k |-> kind, url |-> "", cdn |-> "", err |-> ""]

\* The same record in a JSON text json.dumps would not write (other spacing,
\* \u escapes): json.loads reads it as the same object.
OtherText(url, cdn, err) ==
    [k |-> "obj", url |-> url, cdn |-> cdn, err |-> err, text |-> "other"]

\* json.dumps(item, ensure_ascii=False): the record in the text of json.dumps.
Dumps(l) == Rec(l.url, l.cdn, l.err)
DumpsAll(ls) == [j \in 1..Len(ls) |-> Dumps(ls[j])]

ObjLines ==
    {Rec(u, "cdn", e) : u \in Keys, e \in {"", Missing, "e"}}
    \cup {Rec(u, "", "e") : u \in Keys}
Lines == ObjLines \cup {Other("nonobj"), Other("garbage"), Other("blank"),
                        Other("undecodable")}

Files == {Absent} \cup {File(ls) : ls \in UNION {[1..n -> Lines] : n \in 0..MaxLines}}

\* item.get(key, default)
Get(v, default) == IF v = Missing THEN default ELSE v

\* is_success_record, for the default field names
is_success_record(item) ==
    LET cdn == Get(item.cdn, "")
        err == Get(item.err, "")
    IN  cdn # "" /\ err = ""

\* extract_url_from_record
extract_url_from_record(item) == Get(item.url, "")

\* Reading a line raises UnicodeDecodeError.
Undecodable(l) == l.k = "undecodable"

\* json.loads(raw) succeeds and gives a dict.
IsDict(l) == l.k = "obj"

\* The lines clean_output_jsonl writes to the temporary file.
KeptLine(l) == IsDict(l) /\ is_success_record(l)

\* The lines it counts as removed: every other line that is not blank.
RemovedLine(l) == l.k # "blank" /\ ~KeptLine(l)

\* load_resume_success_urls: [raised, urls].  A missing file gives the empty
\* set; a line that cannot be decoded raises out of the function.
load_resume_success_urls(f) ==
    IF ~f.exists THEN [raised |-> FALSE, urls |-> {}]
    ELSE IF \E j \in 1..Len(f.lines) : Undecodable(f.lines[j])
    THEN [raised |-> TRUE, urls |-> {}]
    ELSE [raised |-> FALSE,
          urls |-> {extract_url_from_record(f.lines[j]) :
                      j \in {n \in 1..Len(f.lines) : KeptLine(f.lines[n])}} \ {""}]

\* A cleaning that opens the path for writing: a missing file is created.
CleanCreatesFile(f) ==
    IF ~f.exists THEN [raised |-> FALSE, ret |-> <<0, 0>>, file |-> File(<<>>)]
    ELSE [raised |-> FALSE,
          ret |-> <<Len(SelectSeq(f.lines, KeptLine)),
                    Len(SelectSeq(f.lines, RemovedLine))>>,
          file |-> File(DumpsAll(SelectSeq(f.lines, KeptLine)))]

\* clean_output_jsonl as a whole: [raised, ret, file].
clean_output_jsonl(f) ==
    IF ~f.exists THEN [raised |-> FALSE, ret |-> <<0, 0>>, file |-> f]
    ELSE IF \E j \in 1..Len(f.lines) : Undecodable(f.lines[j])
    THEN [raised |-> TRUE, ret |-> NoneVal, file |-> f]
    ELSE [raised |-> FALSE,
          ret |-> <<Len(SelectSeq(f.lines, KeptLine)),
                    Len(SelectSeq(f.lines, RemovedLine))>>,
          file |-> File(DumpsAll(SelectSeq(f.lines, KeptLine)))]

\* The output path and the directory the temporary file is created in.
OutputPath == <<"outdir", "out.jsonl">>
dirname(path) == path[1]
TmpFile(lines) == [exists |-> TRUE, lines |-> lines, dir |-> dirname(OutputPath)]

\* Leaving `with ... as tmp` without closing the file first.
NoFlushTmp(t, b) == t

\* Leaving `with ... as tmp`: tmp.close() writes the buffered lines.
FlushTmp(t, b) == [t EXCEPT !.lines = t.lines \o b]

CleanActive == {"read", "close", "replace"}

\* open(output_path): FileNotFoundError returns (0, 0); else the temporary
\* file is created in the directory of the output path.
CleanOpen ==
    /\ c_pc = "start"
    /\ IF ~out_file.exists
       THEN /\ c_ret' = <<0, 0>>
            /\ c_pc' = "done"
            /\ UNCHANGED <<handle, tmp_disk>>
       ELSE /\ handle' = out_file.lines
            /\ tmp_disk' = TmpFile(<<>>)
            /\ c_pc' = "read"
            /\ UNCHANGED c_ret
    /\ UNCHANGED <<out_file, c_pos, tmp_buf, kept, removed, resume_urls,
                   prog, workers, run_vars, resume_vars, record_vars>>

\* One turn of `for line in handle`.
CleanLine ==
    /\ c_pc = "read"
    /\ c_pos < Len(handle)
    /\ ~Undecodable(handle[c_pos + 1])
    /\ LET l == handle[c_pos + 1] IN
        /\ c_pos' = c_pos + 1
        /\ IF l.k = "blank"
           THEN UNCHANGED <<kept, removed, tmp_buf, tmp_disk>>
           ELSE IF KeptLine(l)
           THEN /\ kept' = kept + 1
                /\ removed' = removed
                /\ \E full \in BOOLEAN :
                     IF full THEN /\ tmp_disk' = FlushTmp(tmp_disk, Append(tmp_buf, Dumps(l)))
                                  /\ tmp_buf' = <<>>
                     ELSE /\ tmp_buf' = Append(tmp_buf, Dumps(l))
                          /\ tmp_disk' = tmp_disk
           ELSE /\ removed' = removed + 1
                /\ UNCHANGED <<kept, tmp_buf, tmp_disk>>
    /\ UNCHANGED <<out_file, handle, c_pc, c_ret, resume_urls,
                   prog, workers, run_vars, resume_vars, record_vars>>

\* The read reaches bytes that are not UTF-8 (the decoder works on chunks,
\* so this can be at an earlier line of the chunk): UnicodeDecodeError leaves
\* both with blocks and the function; the temporary file is closed and stays.
CleanRaise ==
    /\ c_pc = "read"
    /\ \E j \in (c_pos + 1)..Len(handle) : Undecodable(handle[j])
    /\ tmp_disk' = FlushTmp(tmp_disk, tmp_buf)
    /\ tmp_buf' = <<>>
    /\ c_pc' = "raised"
    /\ UNCHANGED <<out_file, handle, c_pos, kept, removed, c_ret, resume_urls,
                   prog, workers, run_vars, resume_vars, record_vars>>

\* The loop is over: the with blocks are left, the temporary file is closed.
CleanClose ==
    /\ c_pc = "read"
    /\ c_pos = Len(handle)
    /\ tmp_disk' = FlushTmp(tmp_disk, tmp_buf)
    /\ tmp_buf' = <<>>
    /\ c_pc' = "replace"
    /\ UNCHANGED <<out_file, handle, c_pos, kept, removed, c_ret, resume_urls,
                   prog, workers, run_vars, resume_vars, record_vars>>

\* os.replace(tmp.name, output_path); return (kept, removed)
CleanReplace ==
    /\ c_pc = "replace"
    /\ out_file' = File(tmp_disk.lines)
    /\ tmp_disk' = Absent
    /\ c_ret' = <<kept, removed>>
    /\ c_pc' = "done"
    /\ UNCHANGED <<handle, c_pos, tmp_buf, kept, removed, resume_urls,
                   prog, workers, run_vars, resume_vars, record_vars>>

\* The process is killed inside clean_output_jsonl: what was not flushed is
\* lost, the files stay as they are.
CleanCrash ==
    /\ c_pc \in CleanActive
    /\ tmp_buf' = <<>>
    /\ c_pc' = "crashed"
    /\ UNCHANGED <<out_file, handle, c_pos, tmp_disk, kept, removed, c_ret,
                   resume_urls, prog, workers, run_vars, resume_vars, record_vars>>

\* load_resume_success_urls on the file as it is: before any cleaning, or
\* after it as in main.
LoadUrls ==
    /\ c_pc \in {"start", "done"}
    /\ resume_urls' = load_resume_success_urls(out_file).urls
    /\ c_pc' = IF load_resume_success_urls(out_file).raised
               THEN "load_raised" ELSE "loaded"
    /\ UNCHANGED <<out_file, handle, c_pos, tmp_buf, tmp_disk, kept, removed,
                   c_ret, prog, workers, run_vars, resume_vars, record_vars>>

CleanInit ==
    /\ prog = "kwai" /\ workers = 1
    /\ out_file \in Files
    /\ handle = <<>> /\ c_pos = 0
    /\ tmp_buf = <<>> /\ tmp_disk = Absent
    /\ kept = 0 /\ removed = 0
    /\ c_pc = "start" /\ c_ret = NoneVal /\ resume_urls = {}
    /\ RunIdle /\ ResumeIdle /\ RecordIdle

CleanNext ==
    \/ CleanOpen
    \/ CleanLine
    \/ CleanRaise
    \/ CleanClose
    \/ CleanReplace
    \/ CleanCrash
    \/ LoadUrls

SpecClean == CleanInit /\ [][CleanNext]_vars

-----------------------------------------------------------------------------
(* Runs with --resume: kwai_csv_to_jsonl.py and ks_csv_to_jsonl.py.        *)
(*                                                                         *)
(* The same input CSV is run up to MaxRuns times against the same output   *)
(* path, which does not exist before the first run.  A run may be killed   *)
(* between two rows.  The transform is a fixed function of the URL; the    *)
(* rows are resolved in input order (the order of the records does not     *)
(* depend on the worker count).                                            *)

MaxInput == 3
MaxRuns == 2

\* The URL field of an input row: a URL, the empty string, or nothing at all
\* (a CSV line with fewer cells than the header: csv.DictReader gives None).
InputUrls == Keys \cup {"", Missing}

\* kwai: the rows whose URL is not in resume_urls
kwai_resume_rows(rs, urls) == SelectSeq(rs, LAMBDA u : u \notin urls)

\* kwai: `row.get(args.url_col, "").strip()` in the filter, which runs only
\* `if resume_urls`, raises AttributeError for a row whose URL is None.
kwai_filter_raises(rs, urls) ==
    urls # {} /\ \E i \in 1..Len(rs) : rs[i] = Missing

\* Resuming without skipping anything.
NoOffset(rs, offset) == rs

\* ks: rows[resume_offset:]
ks_resume_rows(rs, offset) == SubSeq(rs, offset + 1, Len(rs))

\* _process_one: `if not share_url: return "", "empty url"`, else the call
\* of the transform.
RowKind(url) == IF url \in {"", Missing} THEN "empty" ELSE transform[url]

\* The record a run writes for a row with this URL.
RowRecord(p, url) ==
    Rec(url, OrEmpty(SeqResult(p, RowKind(url))[1]), SeqResult(p, RowKind(url))[2])

\* args.url_col
url_col == "URL"

\* The lines main writes to sys.stderr during the setup.
ResumeNeedsFile == "--resume requires --output file"
MissingColumn == "Missing URL column"
RemovedRows == "resume: removed failed rows"
SkippedRows == "resume: skipped already resolved"
AllResolved == "resume: all rows already resolved"
Traceback == "Traceback (most recent call last)"

\* Counting the lines of the existing file (ks) decodes it.
ks_count_raises(f) == f.exists /\ \E j \in 1..Len(f.lines) : Undecodable(f.lines[j])

\* The resume setup of main.  kwai: --resume needs an output file (return 2);
\* then clean_output_jsonl, then load_resume_success_urls on the cleaned
\* file.  ks: the lines of the existing file are counted.  An exception
\* leaves main: traceback, status 1.
RStart ==
    /\ r_pc = "start"
    /\ prior' = out_file
    /\ IF ~args.resume \/ (prog = "ks" /\ args.output = "-")
       THEN /\ r_pc' = "open"
            /\ UNCHANGED <<out_file, c_ret, resume_urls, resume_offset, r_status, r_stderr>>
       ELSE IF prog = "kwai" /\ args.output = "-"
       THEN /\ r_stderr' = Append(r_stderr, ResumeNeedsFile)
            /\ r_status' = 2
            /\ r_pc' = "failed"
            /\ UNCHANGED <<out_file, c_ret, resume_urls, resume_offset>>
       ELSE IF prog = "kwai"
       THEN /\ out_file' = clean_output_jsonl(out_file).file
            /\ c_ret' = clean_output_jsonl(out_file).ret
            /\ resume_urls' = load_resume_success_urls(out_file').urls
            /\ IF clean_output_jsonl(out_file).raised
               THEN /\ r_pc' = "crashed"
                    /\ r_status' = 1
                    /\ r_stderr' = Append(r_stderr, Traceback)
               ELSE /\ r_pc' = "open"
                    /\ r_status' = r_status
                    /\ r_stderr' = IF c_ret'[2] > 0 THEN Append(r_stderr, RemovedRows)
                                   ELSE r_stderr
            /\ UNCHANGED resume_offset
       ELSE /\ IF ks_count_raises(out_file)
               THEN /\ r_pc' = "crashed"
                    /\ r_status' = 1
                    /\ r_stderr' = Append(r_stderr, Traceback)
                    /\ UNCHANGED resume_offset
               ELSE /\ resume_offset' = IF out_file.exists THEN Len(out_file.lines) ELSE 0
                    /\ r_pc' = "open"
                    /\ UNCHANGED <<r_status, r_stderr>>
            /\ UNCHANGED <<out_file, c_ret, resume_urls>>
    /\ UNCHANGED <<csv_rows, transform, r_rows, r_idx, ends, args, fieldnames, calls,
                   r_stdout, handle, c_pos, tmp_buf, tmp_disk, kept, removed, c_pc,
                   prog, workers, run_vars, record_vars>>

\* A setup that never switches to append mode.
ModeWrite(p, a, f) == "w"

\* output_mode: "a" for kwai with --resume and for ks with --resume on an
\* existing file, else "w".
output_mode(p, a, f) ==
    IF a.resume /\ (p = "kwai" \/ f.exists) THEN "a" ELSE "w"

\* open(path, "w") on any file.
Truncated(f) == File(<<>>)

\* open(path, mode): "w" creates or truncates the file, "a" creates it when
\* it is missing.
OpenOutput(f, mode) ==
    IF mode = "w" THEN Truncated(f)
    ELSE IF f.exists THEN f ELSE File(<<>>)

\* The output is opened (sys.stdout for "-"), then the CSV is read: without
\* the URL column main returns 2.  The rows are filtered.  kwai returns 0 at
\* once when no row is left; an exception in its filter leaves main.
ROpenOutput ==
    /\ r_pc = "open"
    /\ out_file' = IF args.output = "-" THEN out_file
                   ELSE OpenOutput(out_file, output_mode(prog, args, out_file))
    /\ r_idx' = 1
    /\ IF url_col \notin fieldnames
       THEN /\ r_stderr' = Append(r_stderr, MissingColumn)
            /\ r_status' = 2
            /\ r_rows' = <<>>
            /\ r_pc' = "failed"
       ELSE IF prog = "kwai" /\ kwai_filter_raises(csv_rows, resume_urls)
       THEN /\ r_stderr' = Append(r_stderr, Traceback)
            /\ r_status' = 1
            /\ r_rows' = <<>>
            /\ r_pc' = "crashed"
       ELSE /\ r_rows' = IF prog = "kwai" THEN kwai_resume_rows(csv_rows, resume_urls)
                        ELSE ks_resume_rows(csv_rows, resume_offset)
            /\ r_pc' = IF r_rows' = <<>> THEN "done" ELSE "row"
            /\ r_status' = IF r_rows' = <<>> THEN 0 ELSE r_status
            /\ r_stderr' =
                 LET s1 == IF prog = "kwai" /\ Len(r_rows') < Len(csv_rows)
                           THEN Append(r_stderr, SkippedRows) ELSE r_stderr
                 IN  IF prog = "kwai" /\ r_rows' = <<>> THEN Append(s1, AllResolved) ELSE s1
    /\ UNCHANGED <<csv_rows, transform, prior, resume_offset, ends, args, fieldnames,
                   calls, r_stdout, handle, c_pos,
                   tmp_buf, tmp_disk, kept, removed, c_pc, c_ret, resume_urls,
                   prog, workers, run_vars, record_vars>>

\* The calls of the extractor a row costs: none for a row without a URL.
RowCalls(url) == IF RowKind(url) = "empty" THEN 0 ELSE 1

\* The next row is resolved and its record is written to the output; after
\* the last row the output is closed and main returns 0.
RRow ==
    /\ r_pc = "row"
    /\ IF args.output = "-"
       THEN /\ r_stdout' = Append(r_stdout, RowRecord(prog, r_rows[r_idx]))
            /\ UNCHANGED out_file
       ELSE /\ out_file' = File(Append(out_file.lines, RowRecord(prog, r_rows[r_idx])))
            /\ UNCHANGED r_stdout
    /\ calls' = calls + RowCalls(r_rows[r_idx])
    /\ r_idx' = r_idx + 1
    /\ r_pc' = IF r_idx = Len(r_rows) THEN "done" ELSE "row"
    /\ r_status' = IF r_idx = Len(r_rows) THEN 0 ELSE r_status
    /\ UNCHANGED <<csv_rows, transform, prior, resume_offset, r_rows, ends, args,
                   fieldnames, r_stderr, handle,
                   c_pos, tmp_buf, tmp_disk, kept, removed, c_pc, c_ret,
                   resume_urls, prog, workers, run_vars, record_vars>>

\* The process is ended by SIGINT between two rows: the records of this run
\* that were still in the write buffer may be lost.
RKill ==
    /\ r_pc = "row"
    /\ \E lost \in 0..(r_idx - 1) :
        IF args.output = "-"
        THEN /\ r_stdout' = SubSeq(r_stdout, 1, Len(r_stdout) - lost)
             /\ UNCHANGED out_file
        ELSE /\ out_file' = File(SubSeq(out_file.lines, 1, Len(out_file.lines) - lost))
             /\ UNCHANGED r_stdout
    /\ r_status' = 130
    /\ r_pc' = "killed"
    /\ UNCHANGED <<csv_rows, transform, prior, resume_offset, r_rows, r_idx, ends,
                   args, fieldnames, calls, r_stderr,
                   handle, c_pos, tmp_buf, tmp_disk, kept, removed, c_pc, c_ret,
                   resume_urls, prog, workers, run_vars, record_vars>>

\* The script is started again with the same arguments.
RNextRun ==
    /\ r_pc \in {"done", "killed"}
    /\ Len(ends) + 1 < MaxRuns
    /\ ends' = Append(ends, r_pc)
    /\ r_pc' = "start"
    /\ r_rows' = <<>> /\ r_idx' = 1 /\ resume_offset' = 0
    /\ c_ret' = NoneVal /\ resume_urls' = {}
    /\ calls' = 0 /\ r_status' = -1 /\ r_stderr' = <<>> /\ r_stdout' = <<>>
    /\ UNCHANGED <<csv_rows, transform, prior, out_file, args, fieldnames,
                   handle, c_pos, tmp_buf,
                   tmp_disk, kept, removed, c_pc,
                   prog, workers, run_vars, record_vars>>

\* The arguments of the runs with --resume on an output file, and a CSV
\* with the URL column.
ResumeArgs == [resume |-> TRUE, output |-> "file"]
WithUrlColumn == {url_col, "name"}

ResumeInit ==
    /\ prog \in {"kwai", "ks"} /\ workers = 1
    /\ csv_rows \in UNION {[1..n -> InputUrls] : n \in 1..MaxInput}
    /\ transform \in [Keys -> {"ok", "fail"}]
    /\ out_file = Absent /\ prior = Absent
    /\ resume_offset = 0 /\ r_rows = <<>> /\ r_idx = 1
    /\ r_pc = "start" /\ ends = <<>>
    /\ args = ResumeArgs /\ fieldnames = WithUrlColumn
    /\ calls = 0 /\ r_status = -1 /\ r_stderr = <<>> /\ r_stdout = <<>>
    /\ handle = <<>> /\ c_pos = 0 /\ tmp_buf = <<>> /\ tmp_disk = Absent
    /\ kept = 0 /\ removed = 0 /\ c_pc = "idle"
    /\ c_ret = NoneVal /\ resume_urls = {}
    /\ RunIdle /\ RecordIdle

ResumeNext ==
    \/ RStart
    \/ ROpenOutput
    \/ RRow
    \/ RKill
    \/ RNextRun

SpecResume == ResumeInit /\ [][ResumeNext]_vars

-----------------------------------------------------------------------------
(* kwai_csv_to_jsonl.py: the setup of main, on any arguments.              *)
(*                                                                         *)
(* A run with or without --resume, to a file or to sys.stdout, on a CSV    *)
(* with or without the URL column, finds at the output path a file of up   *)
(* to MaxPrior lines left by earlier runs, or none.                        *)

MaxPrior == 2

\* The lines of the file found: successful records, one of them in another
\* JSON text, a failed record, text that is not JSON, a record cut inside a
\* multi-byte character.
PriorLines == {Rec("a", "cdn", ""), Rec("b", "cdn", ""), OtherText("b", "cdn", ""),
               Rec("a", "", "e"), Other("garbage"), Other("undecodable")}
PriorFiles ==
    {Absent} \cup {File(ls) : ls \in UNION {[1..n -> PriorLines] : n \in 0..MaxPrior}}

SetupInit ==
    /\ prog = "kwai" /\ workers = 1
    /\ args \in [resume : BOOLEAN, output : {"-", "file"}]
    /\ fieldnames \in {WithUrlColumn, {"name"}}
    /\ csv_rows \in UNION {[1..n -> Keys] : n \in 1..MaxInput}
    /\ transform \in [Keys -> {"ok", "fail"}]
    /\ out_file \in PriorFiles /\ prior = Absent
    /\ resume_offset = 0 /\ r_rows = <<>> /\ r_idx = 1
    /\ r_pc = "start" /\ ends = <<>>
    /\ calls = 0 /\ r_status = -1 /\ r_stderr = <<>> /\ r_stdout = <<>>
    /\ handle = <<>> /\ c_pos = 0 /\ tmp_buf = <<>> /\ tmp_disk = Absent
    /\ kept = 0 /\ removed = 0 /\ c_pc = "idle"
    /\ c_ret = NoneVal /\ resume_urls = {}
    /\ RunIdle /\ RecordIdle

SpecSetup == SetupInit /\ [][ResumeNext]_vars

-----------------------------------------------------------------------------
(* Reading the output *)

IsRecord(u) == u.k \in {"json", "line"}

\* The records among the units of a file content, in order.
Records(f) == SelectSeq(f, IsRecord)

\* Everything written through the file object so far: on disk or buffered.
Stream == disk \o buf

\* Record j carries row j and its URL, for every j.
InInputOrder(rs) == \A j \in 1..Len(rs) : rs[j].row = j /\ rs[j].url = rows[j]

\* Record rec carries the result pair.
Carries(rec, pair) == rec.cdn = OrEmpty(pair[1]) /\ rec.err = pair[2]

\* The file holds whole lines only: a record written as JSON text is directly
\* followed by its newline.
WholeLines(f) ==
    \A j \in 1..Len(f) :
        /\ f[j].k = "json" => j < Len(f) /\ f[j + 1].k = "nl"
        /\ f[j].k = "nl" => j > 1 /\ f[j - 1].k = "json"

NoRowTwice(f) ==
    \A i, j \in 1..Len(Records(f)) : Records(f)[i].row = Records(f)[j].row => i = j

\* The transform was called for row i and the call has returned or raised.
Completed(i) == fut[i] \in Settled

-----------------------------------------------------------------------------
(* C1: in pool mode of kwai_csv_to_jsonl and ks_csv_to_jsonl the records
   written to the output are, at every moment and for every order in which
   the workers finish, a prefix of the input rows: record j is row j. *)
C1_OrderedPrefix ==
    (Csv /\ workers > 1) => InInputOrder(Records(Stream))

\* Row 1 is written, a later row finished before its predecessor and waits in
\* the reorder buffer.
C1_Witness ==
    /\ Csv /\ workers > 1
    /\ pc = "wait"
    /\ Len(Records(Stream)) >= 1
    /\ DOMAIN ready # {}
    /\ \E i \in Idx : i < N /\ i \notin collected /\ (i + 1) \in DOMAIN ready

(* C2: a run that is not interrupted and whose transform returned normally
   for every row ends, for every worker count in {1, 2, 8}, with status 0 and
   exactly one record per input row in the file, the i-th record being row i
   with the result of the transform call for row i. *)
C2_OneRecordPerRow ==
    (pc \in Terminal /\ ~interrupted /\ \A i \in Idx : fut[i] \in Returned)
    => /\ pc = "exited" /\ exit_status = 0
       /\ buf = <<>>
       /\ Len(Records(disk)) = N
       /\ InInputOrder(Records(disk))
       /\ \A i \in Idx : Carries(Records(disk)[i], FutureResult(prog, fut[i]))

\* A finished resolve run of three rows in two batches on the pool, with a
\* success and a failure among the results.
C2_Witness ==
    /\ prog = "resolve" /\ workers = 2 /\ batch_size = 2 /\ N = 3
    /\ pc = "exited" /\ ~interrupted
    /\ \A i \in Idx : fut[i] \in Returned
    /\ \E i, j \in Idx : fut[i] = "ok" /\ fut[j] = "fail"

(* C3: when the rows run on the pool and the transform raises for a row, the
   run is not aborted; it ends normally with every row written, the row that
   raised with an empty result and the exception's message as its error, and
   every other row with its own result. *)
C3_PoolIsolation ==
    /\ UsesPool => pc # "crashed"
    /\ (pc = "exited" /\ ~interrupted)
       => /\ exit_status = 0
          /\ Len(Records(disk)) = N
          /\ InInputOrder(Records(disk))
          /\ \A i \in Idx :
                /\ fut[i] = "raise"
                   => Records(disk)[i].cdn = "" /\ Records(disk)[i].err = ExcMsg
                /\ fut[i] \in Returned
                   => Carries(Records(disk)[i],
                              IF prog = "resolve" THEN process_one(fut[i])
                              ELSE SeqResult(prog, fut[i]))

\* kwai on the pool: the middle one of three rows raised, the others succeeded.
C3_Witness ==
    /\ prog = "kwai" /\ workers = 2 /\ N = 3
    /\ pc = "exited" /\ ~interrupted
    /\ fut[1] = "ok" /\ fut[2] = "raise" /\ fut[3] = "ok"
    /\ Len(Records(disk)) = 3

(* C4: in sequential mode (workers <= 1), when the transform raises for
   exactly one row, that row is recorded as an error and every other row is
   still processed and written: the exception does not abort the run. *)
C4_SequentialIsolation ==
    (/\ workers <= 1
     /\ pc \in Terminal /\ ~interrupted
     /\ Cardinality({i \in Idx : fut[i] = "raise"}) = 1)
    => /\ pc = "exited"
       /\ Len(Records(disk)) = N
       /\ \A i \in Idx : fut[i] \in Settled
       /\ \A i \in Idx : fut[i] = "raise" => Records(disk)[i].err # ""

(* C5: in resolve_kuaishou_cdn, after an interrupt the output holds exactly
   one record for every input row of the whole job, in input order, and every
   row whose transform had not completed carries the error 'interrupted',
   the rows of batches that were never started included. *)
C5_AllRowsAfterInterrupt ==
    (Resolve /\ pc = "exited" /\ exit_status = 130)
    => /\ Len(Records(disk)) = N
       /\ InInputOrder(Records(disk))
       /\ \A i \in Idx : ~Completed(i) => Records(disk)[i].err = InterruptedMsg

(* C6: in kwai_csv_to_jsonl, after an interrupt every input row is in the
   output exactly once: the rows that completed with their result, every
   other row with the error 'interrupted'. *)
C6_KwaiInterruptSettlesAll ==
    (prog = "kwai" /\ pc \in Terminal /\ interrupted)
    => /\ Len(Records(disk)) = N
       /\ InInputOrder(Records(disk))
       /\ \A i \in Idx :
            IF Completed(i)
            THEN Carries(Records(disk)[i], FutureResult(prog, fut[i]))
            ELSE Records(disk)[i].err = InterruptedMsg

(* C7: in kwai_csv_to_jsonl and resolve_kuaishou_cdn the output file holds,
   in every reachable state and after an interrupt and exit too, only whole
   records, each with its terminating newline, and no record twice. *)
C7_WholeRecordsOnly ==
    prog \in {"kwai", "resolve"} => WholeLines(disk) /\ NoRowTwice(disk)

(* C8: the exit status of kwai_csv_to_jsonl and resolve_kuaishou_cdn depends
   on cancellation only: a run that has seen an interrupt ends with 130, a
   run that processed all its records without one ends with 0, whether the
   records succeeded or failed. *)
C8_ExitStatus ==
    (prog \in {"kwai", "resolve"} /\ pc \in Terminal)
    => /\ observed => exit_status = 130
       /\ (~observed /\ Len(Records(disk)) = N /\ \A i \in Idx : Completed(i))
          => exit_status = 0

\* A run that returned 0 although every one of its three records failed.
C8_Witness ==
    /\ prog \in {"kwai", "resolve"} /\ N = 3
    /\ pc = "exited" /\ exit_status = 0
    /\ Len(Records(disk)) = 3
    /\ \A i \in Idx : Records(disk)[i].cdn = "" /\ Records(disk)[i].err # ""

(* C9: once cancellation has begun, a second interrupt is ignored for every
   worker count: it does not raise out of the cleanup code and changes
   neither the exit status nor the records written; the interrupted flag of
   resolve_kuaishou_cdn is never reset. *)
C9_SecondInterruptIgnored ==
    [][interrupted => (interrupted' /\ pc' # "uncaught")]_vars

(* C10: in resolve_kuaishou_cdn, once the dispatch loop has observed the
   interrupt flag no transform invocation starts any more: no further item in
   sequential mode, no still-queued task of the batch in pool mode, no later
   batch. *)
C10_NoStartAfterObserved ==
    [][(Resolve /\ observed)
       => \A i \in Idx : fut'[i] = "running" => fut[i] = "running"]_vars


-----------------------------------------------------------------------------
\* The result of the transform for row j has been recorded: written to the
\* output with its newline (kwai, ks), appended to results (resolve).
RecordedRow(j) ==
    IF Csv
    THEN \E n \in 1..(Len(Stream) - 1) :
            Stream[n].k = "json" /\ Stream[n].row = j /\ Stream[n + 1].k = "nl"
    ELSE results[j] # NoneVal

(* C11: at every moment of a run at most W transform invocations are in
   progress.  With W <= 1 no task is ever queued on a pool, at most one
   invocation is in progress, the main thread is inside that call, and the
   call for a row has only started when the result of every earlier row has
   been recorded (written, in kwai_csv_to_jsonl and ks_csv_to_jsonl). *)
C11_BoundedConcurrency ==
    /\ Cardinality(Running) <= workers
    /\ workers <= 1
       => /\ \A i \in Idx : fut[i] \notin {"queued", "cancelled"}
          /\ Cardinality(Running) <= 1
          /\ Running # {} => pc \in {"seq_call", "r_call"}
          /\ pc \notin Terminal
             => \A i \in Idx : fut[i] # "idle" => \A j \in 1..(i - 1) : RecordedRow(j)

\* Two calls run on a pool of two workers while a third task waits in the
\* queue.
C11_Witness ==
    /\ workers = 2 /\ N = 3
    /\ Cardinality(Running) = 2
    /\ \E i \in Idx : fut[i] = "queued"

\* A step of a worker thread of the pool: a queued task starts, or a running
\* call ends.
WorkerStep ==
    /\ UsesPool
    /\ \E i \in Idx : \/ fut[i] = "queued" /\ fut'[i] = "running"
                      \/ fut[i] = "running" /\ fut'[i] \in Settled

\* In what has been written a record's JSON text is directly followed by its
\* own newline: no other record's text comes in between.
NotInterleaved(f) ==
    \A j \in 1..(Len(f) - 1) : f[j].k = "json" => f[j + 1].k = "nl"

(* C12: the output has one writer.  For every worker count a step of a
   worker thread leaves the output file, the rows handed to the writer, the
   reorder buffer, the results and the progress counters as they are, and the
   writes of two records never interleave. *)
C12_SingleWriter ==
    [][/\ WorkerStep
          => UNCHANGED <<buf, disk, outq, ready, next_idx, results, collected,
                         completed, processed, success_total, failure_total>>
       /\ NotInterleaved(disk' \o buf')]_vars

\* The main thread is between the two write calls of a record while a worker
\* is inside a transform call and another one has finished.
C12_Witness ==
    /\ Csv /\ workers = 2 /\ N = 3
    /\ pc = "w_nl"
    /\ Running # {}
    /\ \E i \in Idx \ collected : fut[i] \in Settled

(* C19: every record written is settled: exactly one of its result field and
   its error field is non-empty, whatever pair the transform returned and
   whatever exception, one with an empty message included, it raised. *)
C19_WrittenRecordSettled ==
    (t_rec # NoneVal /\ t_rec # Crashed)
    => ((t_rec[1] # "") # (t_rec[2] # ""))
-----------------------------------------------------------------------------
(* Reading a resume file *)

\* A successful record: a JSON object whose result field is non-empty and
\* whose error field is empty or absent.
Successful(l) == l.k = "obj" /\ l.cdn # "" /\ l.err \in {"", Missing}

\* Any other line that is not blank: a failed record, a JSON value that is
\* no object, a line that is not JSON.
OtherLine(l) == l.k # "blank" /\ ~Successful(l)

SuccessKeys(f) == {f.lines[j].url : j \in {n \in 1..Len(f.lines) : Successful(f.lines[n])}}

(* C13: clean_output_jsonl on a file of N successful records and M other
   non-blank lines returns (N, M), is not aborted by a malformed line, and
   leaves in the file exactly the N successful records in their order. *)
C13_CleanCounts ==
    /\ c_pc # "raised"
    /\ (c_pc = "done" /\ out_file.exists)
       => /\ c_ret = <<Len(SelectSeq(handle, Successful)),
                       Len(SelectSeq(handle, OtherLine))>>
          /\ out_file = File(SelectSeq(handle, Successful))

(* C14: load_resume_success_urls on a file of N successful and M failed or
   malformed records returns exactly the keys of the successful records. *)
C14_LoadSuccessKeys ==
    /\ c_pc # "load_raised"
    /\ c_pc = "loaded" => resume_urls = SuccessKeys(out_file)

(* C15: clean_output_jsonl is atomic: at every step of the rewrite, after a
   crash at any step and after an exception, the file at the output path
   holds the complete original content or the complete cleaned content, and
   the temporary file is in the directory of the output file. *)
C15_CleanAtomic ==
    /\ c_pc \in CleanActive \cup {"done", "raised", "crashed"} /\ handle # <<>>
       => \/ out_file = File(handle)
          \/ out_file = File(SelectSeq(handle, Successful))
    /\ tmp_disk.exists => tmp_disk.dir = dirname(OutputPath)

\* A crash in the middle of the rewrite: kept records are in the temporary
\* file, the output path still holds the original with its failed records.
C15_Witness ==
    /\ c_pc = "crashed"
    /\ tmp_disk.exists /\ tmp_disk.lines # <<>>
    /\ out_file = File(handle)
    /\ out_file # File(SelectSeq(handle, Successful))

-----------------------------------------------------------------------------
(* Reading the runs with --resume *)

InputKeys == {csv_rows[i] : i \in 1..Len(csv_rows)}
ProcessedKeys == {r_rows[i] : i \in 1..Len(r_rows)}

\* No two records of the file have the same natural key.
NoDuplicateKeys(f) ==
    \A i, j \in 1..Len(f.lines) : f.lines[i].url = f.lines[j].url => i = j

\* The file ends with one record for each of the rows rs, in their order.
EndsWithRecordsOf(f, rs) ==
    /\ Len(f.lines) >= Len(rs)
    /\ \A i \in 1..Len(rs) :
          f.lines[Len(f.lines) - Len(rs) + i].url = rs[i]

(* C16: when the output path does not exist, clean_output_jsonl returns
   (0, 0) and load_resume_success_urls the empty set, neither raises nor
   creates the file, and the run started with --resume processes every input
   record. *)
C16_MissingFile ==
    (prog = "kwai" /\ ~prior.exists)
    => /\ r_pc # "crashed"
       /\ r_pc = "open" => c_ret = <<0, 0>> /\ resume_urls = {} /\ ~out_file.exists
       /\ r_pc \in {"row", "done", "killed"} => r_rows = csv_rows
       /\ r_pc = "done"
          => /\ Len(out_file.lines) = Len(csv_rows)
             /\ EndsWithRecordsOf(out_file, csv_rows)

\* The first run with --resume has resolved all three rows of the input.
C16_Witness ==
    /\ prog = "kwai" /\ ~prior.exists
    /\ r_pc = "done" /\ Len(csv_rows) = 3
    /\ Len(out_file.lines) = 3

(* C17: for a deterministic transform, two runs of kwai_csv_to_jsonl with
   --resume on the same input and the same output file end with the same
   set of successful keys as one run over the whole input, and the output
   file holds no two records with the same natural key. *)
C17_Idempotent ==
    (prog = "kwai" /\ ends = <<"done">> /\ r_pc = "done")
    => /\ SuccessKeys(out_file) = {u \in InputKeys : RowKind(u) = "ok"}
       /\ NoDuplicateKeys(out_file)

(* C18: after a completed run of kwai_csv_to_jsonl with --resume the keys
   marked successful in the resumed output file together with the keys
   processed in the run are the keys of the input, and the output file holds
   no duplicate records for a key. *)
C18_KeysPartition ==
    (prog = "kwai" /\ r_pc = "done")
    => /\ SuccessKeys(prior) \cup ProcessedKeys = InputKeys
       /\ NoDuplicateKeys(out_file)

\* ks: row i of the input was skipped by the current run.
KsSkipped(i) == i <= Len(csv_rows) - Len(r_rows)

(* C20 as stated: a run of ks_csv_to_jsonl with --resume skips exactly the
   inputs whose URL has a successful record in the existing output file; an
   input whose earlier record is a failure is processed again. *)
C20_SkipsResolvedOnly ==
    (prog = "ks" /\ r_pc \in {"row", "done"})
    => \A i \in 1..Len(csv_rows) :
          KsSkipped(i) <=> (prior.exists /\ csv_rows[i] \in SuccessKeys(prior))

(* C20 amended: a run of ks_csv_to_jsonl with --resume on an existing output
   file of L lines skips the first L input rows, whatever their records say,
   and processes the remaining rows in input order, appending one record for
   each; when the file does not exist every row is processed. *)
C20_SkipsWrittenLines ==
    (prog = "ks" /\ r_pc \in {"row", "done"})
    => /\ r_rows = SubSeq(csv_rows, Len(prior.lines) + 1, Len(csv_rows))
       /\ r_pc = "done"
          => /\ Len(out_file.lines) = Len(prior.lines) + Len(r_rows)
             /\ SubSeq(out_file.lines, 1, Len(prior.lines)) = prior.lines
             /\ EndsWithRecordsOf(out_file, r_rows)

\* The second run found one line, the failed record of the first row, and
\* resolved only the rows after it.
C20_Witness ==
    /\ prog = "ks" /\ r_pc = "done"
    /\ Len(prior.lines) = 1 /\ ~Successful(prior.lines[1])
    /\ prior.lines[1].url = csv_rows[1]
    /\ Len(r_rows) = 2
    /\ Len(out_file.lines) = 3

-----------------------------------------------------------------------------
(* Rows without a URL *)

\* Row i of a plain run has no URL.
EmptyRow(i) == rows[i] = ""

\* The error a row without a URL is recorded with.
EmptyError(p) == IF p = "resolve" THEN "empty input" ELSE "empty url"

\* The record the current run with --resume wrote for row i of r_rows.
ResumeRecord(i) == out_file.lines[Len(out_file.lines) - Len(r_rows) + i]

(* C21: an input record whose URL field is empty or missing yields an output
   record with an empty result and the error 'empty url' (kwai_csv_to_jsonl,
   ks_csv_to_jsonl) or 'empty input' (resolve_kuaishou_cdn); the external
   transform is not invoked for it, the run is not aborted by it and the
   later records are still processed. *)
C21_EmptyUrlRecorded ==
    /\ \A i \in Idx : EmptyRow(i) =>
          /\ fut[i] \notin {"ok", "fail", "live", "raise"}
          /\ \A n \in 1..Len(Stream) :
                (IsRecord(Stream[n]) /\ Stream[n].row = i /\ ~interrupted)
                => Stream[n].cdn = "" /\ Stream[n].err = EmptyError(prog)
    /\ pc = "crashed" => \E i \in Idx : fut[i] = "raise"
    /\ r_pc # "crashed"
    /\ r_pc = "done" =>
          \A i \in 1..Len(r_rows) : r_rows[i] \in {"", Missing} =>
              ResumeRecord(i).cdn = "" /\ ResumeRecord(i).err = "empty url"

-----------------------------------------------------------------------------
(* Reading the setup of a run *)

\* The arguments and the input make the setup fail.
SetupFailure ==
    \/ args.resume /\ args.output = "-"
    \/ url_col \notin fieldnames

\* The records of the file at the output path.
FileRecords(f) == SelectSeq(f.lines, IsDict)

(* C22: in kwai_csv_to_jsonl a setup failure (--resume with output '-', or
   no URL column in the CSV header) aborts the run before any work starts:
   the run ends with a diagnostic on stderr and exit status 2, the transform
   is never invoked and no record is written to the output. *)
C22_SetupFailureAborts ==
    (prog = "kwai" /\ args # NoneVal /\ SetupFailure)
    => /\ calls = 0
       /\ r_stdout = <<>>
       /\ r_pc \notin {"row", "done", "killed", "crashed"}
       /\ r_pc = "failed" => r_status = 2 /\ r_stderr # <<>>
       /\ r_pc \notin {"start", "open"}
          => /\ r_status = 2
             /\ \A j \in 1..Len(FileRecords(out_file)) :
                   \E n \in 1..Len(prior.lines) : prior.lines[n] = FileRecords(out_file)[j]

-----------------------------------------------------------------------------
(* The records of a run, read back by the resume filter *)

\* json.loads of the text json.dumps wrote for a row: the object with the
\* URL, the result and the error field.
Parsed(u) == Rec(u.url, u.cdn, u.err)

\* The records of kwai written with their newline: the ones the run counted.
Counted == {n \in 1..(Len(Stream) - 1) : Stream[n].k = "json" /\ Stream[n + 1].k = "nl"}

\* `if cdn_url:` after the record of row i was written.
CountedAsSuccess(i) == results[i][1] # ""

(* C23: the output of a kwai_csv_to_jsonl run round-trips through the resume
   filter: every record the run wrote and counted as a success is a
   successful record for is_success_record (kept by clean, skipped by the
   next run), every record it counted as a failure is not (removed and
   retried); so while the run goes on success_total and failure_total are
   the numbers of records of either kind. *)
C23_RoundTrip ==
    prog = "kwai" =>
       /\ \A n \in Counted :
             CountedAsSuccess(Stream[n].row) <=> is_success_record(Parsed(Stream[n]))
       /\ pc \notin Terminal =>
          /\ success_total =
                Cardinality({n \in Counted : is_success_record(Parsed(Stream[n]))})
          /\ failure_total =
                Cardinality({n \in Counted : ~is_success_record(Parsed(Stream[n]))})

\* A finished run on the pool that counted a success, the failure of a live
\* page and the failure of an exception.
C23_Witness ==
    /\ prog = "kwai" /\ workers = 2 /\ N = 3
    /\ pc = "exited" /\ exit_status = 0
    /\ success_total = 1 /\ failure_total = 2
    /\ \E i, j \in Idx : fut[i] = "live" /\ fut[j] = "raise"

-----------------------------------------------------------------------------
(* Reading the progress reports *)

\* The records that have completed in the current run.
Done ==
    IF Csv THEN completed - skipped
    ELSE Cardinality({i \in Idx : results[i] # NoneVal /\ results[i][2] # InterruptedMsg})

\* A unit of the output is a record or its newline, never a progress line.
OutputUnit(u) == u.k \in {"json", "nl", "line"}

(* C24: with progress interval P = 0 no progress line is written; with P > 0
   exactly one progress line is written each time P further records have
   completed in the current run; the progress lines go to stderr and never
   to the output. *)
C24_ProgressEveryP ==
    /\ progress_every = 0 => stderr = <<>>
    /\ progress_every > 0 => Len(stderr) = Done \div progress_every
    /\ \A n \in 1..Len(Stream) : OutputUnit(Stream[n])

-----------------------------------------------------------------------------
(* What process_batch returns *)

InterruptedEntry == <<"", InterruptedMsg>>

(* C25: process_batch returns, for every worker count and whether or not an
   interrupt arrived, exactly len(batch) results, result i belonging to
   batch[i]; each entry whose transform never completed is the 'interrupted'
   entry of its URL, and without an interrupt no entry carries the error
   'interrupted'. *)
C25_BatchResults ==
    (Resolve /\ pc = "r_open")
    => /\ Len(outq) = Cardinality(Batch(start))
       /\ \A i \in Batch(start) :
             /\ results[i] # NoneVal
             /\ outq[i - start + 1] = LineUnit(i, results[i])
             /\ ~Completed(i) => results[i] = InterruptedEntry
             /\ ~interrupted => results[i][2] # InterruptedMsg

\* A batch on two workers was interrupted: one result is there and a task
\* that never started has the 'interrupted' entry.
C25_Witness ==
    /\ Resolve /\ pc = "r_open" /\ workers = 2 /\ interrupted
    /\ \E i, k \in Batch(start) :
          /\ results[i] = process_one("ok")
          /\ fut[k] = "cancelled" /\ results[k] = InterruptedEntry

(* C26: in process_batch a record is given the error 'interrupted' only if
   its transform had not settled before the cancellation point: a result a
   transform call had already produced when the interrupt flag was set is
   kept in the returned list and never replaced by 'interrupted'. *)
C26_SettledResultKept ==
    Resolve => \A i \in at_sigint : results[i] # InterruptedEntry

-----------------------------------------------------------------------------
(* The reorder buffer of the pool loop *)

\* The rows that have a record in the output stream.
WrittenRows == {Records(Stream)[j].row : j \in 1..Len(Records(Stream))}

\* The pool loop of kwai or ks is between two completions, or past the last.
BetweenCompletions == Csv /\ workers > 1 /\ pc \in {"wait", "finish"}

(* C27: in pool mode of kwai_csv_to_jsonl and ks_csv_to_jsonl, after each
   completion has been handled, the number of records written equals
   next_idx (which counts from 0 in the code and from 1 here), each index
   below next_idx has been written exactly once, every index in the ready
   buffer is greater than next_idx, and no index is both written and
   buffered; when all futures have been collected the buffer is empty and
   next_idx equals the number of records. *)
C27_ReorderBuffer ==
    BetweenCompletions
    => /\ Len(Records(Stream)) = next_idx - 1
       /\ WrittenRows = 1..(next_idx - 1)
       /\ NoRowTwice(Stream)
       /\ \A i \in DOMAIN ready : i > next_idx
       /\ DOMAIN ready \cap WrittenRows = {}
       /\ collected = Idx => ready = <<>> /\ next_idx - 1 = N

\* Row 1 is written, row 3 waits in the buffer for row 2.
C27_Witness ==
    /\ BetweenCompletions /\ N = 3
    /\ next_idx = 2 /\ WrittenRows = {1}
    /\ DOMAIN ready = {3} /\ 2 \notin collected

-----------------------------------------------------------------------------
(* The counters of kwai *)

IsNewline(u) == u.k = "nl"

\* The records written in this run: the lines ended in the output stream.
WrittenRecords == Len(SelectSeq(Stream, IsNewline))

\* The sum of the failure bucket counts.
BucketSum ==
    failure_buckets["unknown"] + failure_buckets["captcha_url"]
    + failure_buckets["live_url"] + failure_buckets["photo_id_missing"]
    + failure_buckets["cdn_not_found"] + failure_buckets["empty_url"]
    + failure_buckets["other"]

(* C28: in kwai_csv_to_jsonl, in every reachable state and for every worker
   count, processed = success_total + failure_total = the number of records
   written in this run, the failure bucket counts sum to failure_total, and
   processed <= completed - skipped; at the end of an uninterrupted run
   processed is the number of resume-filtered rows and completed the total
   number of input rows. *)
C28_Counters ==
    prog = "kwai"
    => /\ processed = success_total + failure_total
       /\ processed = WrittenRecords
       /\ BucketSum = failure_total
       /\ processed <= completed - skipped
       /\ (pc \in Terminal /\ ~interrupted)
          => processed = N /\ completed = skipped + N

-----------------------------------------------------------------------------
(* What a run leaves of the file it finds *)

\* The fields of a record, whatever its text.
Content(l) == [url |-> l.url, cdn |-> l.cdn, err |-> l.err]
Contents(ls) == [j \in 1..Len(ls) |-> Content(ls[j])]

\* The kwai run has an output file and has looked at it.
OnFile == prog = "kwai" /\ args # NoneVal /\ args.output = "file" /\ r_pc # "start"

\* Line l of the file is a record this run has written.
NewRecord(l) == \E i \in 1..Len(r_rows) : l = RowRecord(prog, r_rows[i])

(* C29: a kwai_csv_to_jsonl run with --resume leaves every successful record
   that was in the output file before the run in the file, unchanged and in
   the same relative order, whether the run completes, fails per record, or
   is interrupted, and new records are only appended after them; a run
   without --resume discards the previous content of the output file. *)
C29_ResumeKeepsSuccesses ==
    /\ (OnFile /\ args.resume)
       => \E n \in 0..Len(out_file.lines) :
             /\ Contents(SelectSeq(SubSeq(out_file.lines, 1, n), Successful))
                = Contents(SelectSeq(prior.lines, Successful))
             /\ \A j \in (n + 1)..Len(out_file.lines) : NewRecord(out_file.lines[j])
    /\ (OnFile /\ ~args.resume /\ r_pc # "open")
       => /\ out_file.exists
          /\ \A j \in 1..Len(out_file.lines) :
                out_file.lines[j] = RowRecord(prog, r_rows[j])

\* A resumed run found a failed record between two successful ones, one of
\* them in another JSON text, and was killed after it had appended a record.
C29_Witness ==
    /\ OnFile /\ args.resume /\ r_pc = "killed"
    /\ prior = File(<<OtherText("b", "cdn", ""), Rec("a", "", "e")>>)
    /\ out_file = File(<<Rec("b", "cdn", ""), RowRecord(prog, "a")>>)

-----------------------------------------------------------------------------
(* The batches of resolve_kuaishou_cdn *)

\* The call of the transform for row i has begun.
Started(i) == fut[i] \notin {"idle", "queued", "cancelled"}

\* The first row of the batch row i belongs to.
BatchStart(i) == ((i - 1) \div batch_size) * batch_size + 1

\* The record of row j is in the output file.
OnDisk(j) == \E n \in 1..Len(disk) : disk[n].row = j

\* No call for a row has begun before every row of the batches before its
\* own is in the file.
Barrier == \A i \in Idx : Started(i) => \A j \in 1..(BatchStart(i) - 1) : OnDisk(j)

\* The file holds the records of the first batches, whole and in order.
WholeBatches ==
    /\ InInputOrder(Records(disk))
    /\ Len(Records(disk)) % batch_size = 0 \/ Len(Records(disk)) = N

ConcurrencyBound == Cardinality(Running) <= Min(workers, batch_size)

(* C30: batches are barriers in resolve_kuaishou_cdn: no transform invocation
   for an input of batch k+1 starts before every result of batch k has been
   written to the output, so the output always holds the records of a whole
   number of batches (in batch order, the first write truncating and later
   writes appending), and the number of concurrent transform invocations
   never exceeds min(workers, batch size). *)
C30_WholeBatchesAlways ==
    Resolve => Barrier /\ WholeBatches /\ ConcurrencyBound

(* C30, amended: the same, with the output holding the records of a whole
   number of batches whenever no write_jsonl call is in progress. *)
C30_WholeBatchesBetweenWrites ==
    Resolve => Barrier /\ (pc # "r_write" => WholeBatches) /\ ConcurrencyBound

\* The call for the only row of the second batch runs; the two records of
\* the first batch are in the file.
C30_Witness ==
    /\ Resolve /\ batch_size = 2 /\ N = 3
    /\ start = 3 /\ fut[3] = "running"
    /\ Len(Records(disk)) = 2 /\ buf = <<>>

=============================================================================
